---------------------------- MODULE Spec2Model ----------------------------
(***************************************************************************)
(* Model of the barcode scanner of this repository:                       *)
(*   src/barcode.py  EnhancedBarcodeScanner (decoder, gate, resolver,      *)
(*                   history, scan loop)                                   *)
(*   src/app.py      the Streamlit front end: get_product_info and the     *)
(*                   live-camera tab of a session                          *)
(*                                                                         *)
(* Time is counted in ticks of 1/TicksPerSecond second.  Python strings    *)
(* are TLA+ strings, Python bytes are sequences of byte values, Python     *)
(* lists are sequences, Python dicts are functions on their keys.          *)
(***************************************************************************)
EXTENDS Integers, Sequences, FiniteSets, TLC

VARIABLES
    last_scanned,    \* self.last_scanned: None or the key of the last trigger
    last_scan_time,  \* self.last_scan_time, in ticks
    scan_history,    \* self.scan_history: list of {time, type, data}; in a
                     \* Streamlit session st.session_state.scan_history: list
                     \* of {time, type, data, info}
    pc,              \* position of run(): "read", "loop", "stopped", "crashed";
                     \* "app" in a Streamlit session
    barcodes,        \* run(): the candidates of the frame being processed
    idx,             \* run(): index (from 1) of the next candidate
    clock,           \* the wall clock time.time() reads, in ticks
    product_info,    \* run(): result of the last get_product_info call
    call,            \* observer: the last evaluation of the gate (lines 282-290);
                     \* in a Streamlit session the last script run
    trig_time,       \* observer: per key, the time of its last trigger (-1: none)
    lookups,         \* observer: number of get_product_info calls made by run()
    triggers,        \* observer: number of times the gate's branch was taken
    boot,            \* observer: the wall clock when the session started
    app_lookups,     \* observer: the payloads app.py looked up, in order
    arg,             \* input of the function applied (function specifications)
    ret              \* its result

vars == <<last_scanned, last_scan_time, scan_history, pc, barcodes, idx, clock,
          product_info, call, trig_time, lookups, triggers, boot, app_lookups,
          arg, ret>>

scannerVars == <<last_scanned, last_scan_time, scan_history, pc, barcodes, idx,
                 clock, product_info, call, trig_time, lookups, triggers, boot,
                 app_lookups>>

-----------------------------------------------------------------------------
(* Bounds of the model *)

\* most raw detections the decode capability reports over the 8 variants of
\* one frame (decoder specification)
MaxRaw == 3

\* most raw detections in one frame of the scan loop
MaxLoopRaw == 2

\* the scan loop reads no frame once the history holds this many records
MaxHistory == 3

\* the scan loop is followed for this many ticks
MaxElapsed == 6

\* the resolution of the model's clock
TicksPerSecond == 2

-----------------------------------------------------------------------------
(* Python values *)

\* Python's None.  No scan key equals it: every key holds a ":".
None == "None"

\* no candidate went through the gate yet
NoCall == [op |-> "none", key |-> "", now |-> 0, fired |-> FALSE, streak |-> ""]

\* A session that starts at time t with its control at `at`: the scanner
\* __init__ builds (lines 8-12), or the empty history of a new Streamlit
\* session (app.py lines 102-103).
SessionAt(t, at) ==
    /\ last_scanned = None
    /\ last_scan_time = 0
    /\ scan_history = <<>>
    /\ pc = at
    /\ barcodes = <<>>
    /\ idx = 1
    /\ clock = t
    /\ product_info = None
    /\ call = NoCall
    /\ trig_time = [k \in {} |-> 0]
    /\ lookups = 0
    /\ triggers = 0
    /\ boot = t
    /\ app_lookups = <<>>

\* lines 8-12: the scanner __init__ builds, before run() reads a frame
Idle == SessionAt(0, "read")

\* Byte values: ASCII, the continuation bytes and the lead bytes of two-byte
\* UTF-8 sequences.  The payloads of the model use 53 ("5"), 57 ("9"), 195 169
\* (U+00E9) and 255, which no UTF-8 sequence contains.
IsAscii(b) == b < 128
IsContinuation(b) == b >= 128 /\ b < 192
IsLead2(b) == b >= 194 /\ b < 224

\* the text of one ASCII byte / of one two-byte sequence
Chr(b) == CASE b = 53 -> "5" [] b = 57 -> "9" [] OTHER -> "?"
Chr2(b1, b2) == IF b1 = 195 /\ b2 = 169 THEN "U+00E9" ELSE "U+????"

\* bytes.decode('utf-8', errors='ignore'): well-formed sequences become their
\* character, every byte that starts no well-formed sequence is dropped.
RECURSIVE Utf8DecodeIgnore(_)
Utf8DecodeIgnore(bs) ==
    IF bs = <<>> THEN ""
    ELSE IF IsAscii(Head(bs)) THEN Chr(Head(bs)) \o Utf8DecodeIgnore(Tail(bs))
    ELSE IF IsLead2(Head(bs)) /\ Len(bs) >= 2 /\ IsContinuation(bs[2])
         THEN Chr2(bs[1], bs[2]) \o Utf8DecodeIgnore(Tail(Tail(bs)))
    ELSE Utf8DecodeIgnore(Tail(bs))

-----------------------------------------------------------------------------
(* FramePreprocessor and BarcodeDecoder *)

\* The labels of the variants, in the order preprocess_frame appends them.
VariantNames == <<"Original", "Grayscale", "Blurred", "Adaptive Threshold",
                  "Binary", "Otsu", "CLAHE", "Sharpened">>

NumVariants == Len(VariantNames)

\* A frame is modelled by what the decode capability finds in each of its
\* variants: frame[v] is the list of raw detections of variant v.  A raw
\* detection is [type, data, polygon]: pyzbar's Decoded(type, data, polygon).
preprocess_frame(frame) ==
    [v \in 1..NumVariants |-> <<VariantNames[v], frame[v]>>]

\* A variant on which pyzbar.decode raises is modelled by the one-element list
\* <<PyZbarError>> in place of its detections.
PyZbarError == [type |-> "PyZbarError", data |-> <<>>, polygon |-> <<0, 0>>]

\* pyzbar.decode(processed) raises
decode_raises(processed) == processed = <<PyZbarError>>

\* pyzbar.decode(processed): the black-box decode capability
pyzbar_decode(processed) == processed

\* barcode.data.decode('utf-8', errors='ignore')
barcode_data_of(barcode) == Utf8DecodeIgnore(barcode.data)

\* a key that leaves the symbology out
ScanKeyPayloadOnly(barcode_type, barcode_data) == ":" \o barcode_data

\* f"{barcode_type}:{barcode_data}"
ScanKey(barcode_type, barcode_data) == barcode_type \o ":" \o barcode_data

KeyOf(barcode) == ScanKey(barcode.type, barcode_data_of(barcode))

\* `key not in unique_barcodes`
KeyUnseen(key, unique_barcodes) == key \notin unique_barcodes

\* an inner loop in which a later detection of a key replaces the kept one
RECURSIVE DedupVariantKeepsLast(_, _)
DedupVariantKeepsLast(found, st) ==
    IF found = <<>> THEN st
    ELSE LET barcode == Head(found)
             key == KeyOf(barcode)
         IN  IF KeyUnseen(key, st.unique)
             THEN DedupVariantKeepsLast(Tail(found),
                      [st EXCEPT !.all = Append(st.all, barcode),
                                 !.unique = st.unique \cup {key}])
             ELSE DedupVariantKeepsLast(Tail(found),
                      [st EXCEPT !.all =
                          [i \in DOMAIN st.all |->
                              IF KeyOf(st.all[i]) = key THEN barcode
                              ELSE st.all[i]]])

\* The inner loop (lines 74-82) over the detections of one variant; the state
\* is [all |-> all_barcodes, unique |-> the keys of unique_barcodes, raised |->
\* an exception left the function].
RECURSIVE DedupVariant(_, _)
DedupVariant(found, st) ==
    IF found = <<>> THEN st
    ELSE LET barcode == Head(found)
             key == KeyOf(barcode)
         IN  IF KeyUnseen(key, st.unique)
             THEN DedupVariant(Tail(found),
                      [st EXCEPT !.all = Append(st.all, barcode),
                                 !.unique = st.unique \cup {key}])
             ELSE DedupVariant(Tail(found), st)

\* The outer loop (lines 72-82) over the variants from v on.  Nothing catches
\* an exception of pyzbar.decode (line 73): it leaves the function.
RECURSIVE DedupFrom(_, _, _)
DedupFrom(processed_frames, v, st) ==
    IF v > Len(processed_frames) THEN st
    ELSE IF decode_raises(processed_frames[v][2])
    THEN [st EXCEPT !.raised = TRUE]
    ELSE DedupFrom(processed_frames, v + 1,
             DedupVariant(pyzbar_decode(processed_frames[v][2]), st))

\* the locals of detect_barcodes_enhanced when it is left
detect_outcome(frame) ==
    DedupFrom(preprocess_frame(frame), 1,
              [all |-> <<>>, unique |-> {}, raised |-> FALSE])

\* the list detect_barcodes_enhanced returns (line 84)
detect_barcodes_enhanced(frame) == detect_outcome(frame).all

\* detect_barcodes_enhanced is left by an exception
detect_raises(frame) == detect_outcome(frame).raised

-----------------------------------------------------------------------------
(* Inputs of the decoder *)

BarcodeTypes == {"EAN13", "QRCODE"}

\* "59", "59" followed by an undecodable byte, "5"
Payloads == {<<53, 57>>, <<53, 57, 255>>, <<53>>}

\* the detections of variant v among n detections placed by `place`
RECURSIVE VariantList(_, _, _, _, _)
VariantList(n, place, type, data, v) ==
    IF n = 0 THEN <<>>
    ELSE LET rest == VariantList(n - 1, place, type, data, v)
         IN  IF place[n] = v
             THEN Append(rest, [type |-> type[n], data |-> data[n],
                                polygon |-> <<v, Len(rest) + 1>>])
             ELSE rest

\* The frames with n raw detections in the variants `variants`, of the given
\* types and payloads.  A detection's polygon names where it was found.
FramesOf(n, variants, types, payloads) ==
    { [v \in 1..NumVariants |-> VariantList(n, f[1], f[2], f[3], v)] :
        f \in { g \in [1..n -> variants] \X [1..n -> types] \X [1..n -> payloads] :
                   \A i \in 1..n : \A j \in 1..n : i < j => g[1][i] <= g[1][j] } }

RawOf(frame) == UNION { { frame[v][i] : i \in 1..Len(frame[v]) } : v \in 1..NumVariants }

-----------------------------------------------------------------------------
(* Specification of the decoder: detect_barcodes_enhanced on every frame    *)
(* with at most MaxRaw raw detections.                                      *)

InitDecoder ==
    /\ Idle
    /\ \E n \in 0..MaxRaw : arg \in FramesOf(n, 1..NumVariants, BarcodeTypes, Payloads)
    /\ ret = [fn |-> "none"]

Detect ==
    /\ ret.fn = "none"
    /\ ret' = IF detect_raises(arg)
              THEN [fn |-> "detect_barcodes_enhanced", raised |-> TRUE]
              ELSE [fn |-> "detect_barcodes_enhanced", raised |-> FALSE,
                    val |-> detect_barcodes_enhanced(arg)]
    /\ UNCHANGED <<arg, scannerVars>>

NextDecoder == Detect

SpecDecoder == InitDecoder /\ [][NextDecoder]_vars

\* the frame in which the decode of variant v raises
FailAt(frame, v) ==
    [w \in 1..NumVariants |-> IF w = v THEN <<PyZbarError>> ELSE frame[w]]

\* the frame with the variants whose decode raises reporting nothing
WithoutFailures(frame) ==
    [w \in 1..NumVariants |-> IF decode_raises(frame[w]) THEN <<>> ELSE frame[w]]

\* the largest number of raw detections of a frame with a failing variant
MaxFailRaw == 2

\* Specification of the decoder on the frames in which the decode of exactly
\* one variant raises and the other variants report at most MaxFailRaw raw
\* detections.
InitDecoderFails ==
    /\ Idle
    /\ \E n \in 0..MaxFailRaw : \E v \in 1..NumVariants :
          \E frame \in FramesOf(n, 1..NumVariants \ {v}, BarcodeTypes,
                                {<<53, 57>>, <<53>>}) :
              arg = FailAt(frame, v)
    /\ ret = [fn |-> "none"]

SpecDecoderFails == InitDecoderFails /\ [][NextDecoder]_vars

\* the (symbology, payload bytes) pairs and the (symbology, payload text)
\* pairs the variants of a frame report
RawPairs(frame) == { <<r.type, r.data>> : r \in RawOf(frame) }
TextPairs(frame) == { <<r.type, barcode_data_of(r)>> : r \in RawOf(frame) }

\* detect_barcodes_enhanced returned its list
Detected == ret.fn = "detect_barcodes_enhanced" /\ ~ret.raised

\* C6 as stated: the output holds exactly one candidate for every
\* (symbology, payload) pair some variant reported, the payload being the
\* bytes the decode capability reported, and no candidate for any other pair.
C6_OneCandidatePerRawPair ==
    Detected =>
        /\ \A p \in RawPairs(arg) :
              Cardinality({ i \in DOMAIN ret.val :
                              <<ret.val[i].type, ret.val[i].data>> = p }) = 1
        /\ \A i \in DOMAIN ret.val :
              <<ret.val[i].type, ret.val[i].data>> \in RawPairs(arg)

\* C6 amended: the output holds exactly one candidate for every (symbology,
\* payload text) pair some variant reported, the payload text being the UTF-8
\* decoding of the reported bytes with undecodable bytes dropped, and no
\* candidate for any other pair; detections that differ in symbology or in
\* payload text are never merged.
C6_OneCandidatePerDecodedPair ==
    Detected =>
        /\ \A p \in TextPairs(arg) :
              Cardinality({ i \in DOMAIN ret.val :
                              <<ret.val[i].type, barcode_data_of(ret.val[i])>> = p }) = 1
        /\ \A i \in DOMAIN ret.val :
              <<ret.val[i].type, barcode_data_of(ret.val[i])>> \in TextPairs(arg)

\* C6 witness: two variants report the same pair, a third detection differs
\* from it in symbology only, and the output holds the two candidates.
C6_Witness ==
    /\ Detected
    /\ \E v \in 1..NumVariants : \E w \in 1..NumVariants :
          /\ v < w /\ arg[v] # <<>> /\ arg[w] # <<>>
          /\ arg[v][1].type = arg[w][1].type
          /\ arg[v][1].data = arg[w][1].data
          /\ \E r \in RawOf(arg) : /\ r.type # arg[v][1].type
                                   /\ r.data = arg[v][1].data
    /\ Len(ret.val) = 2

-----------------------------------------------------------------------------
(* JSON values, as response.json() returns them.  Every value carries its  *)
(* Python type t: dict, list, str, num, bool or null (None), and its       *)
(* content in a field of that type's own.                                  *)

JNull == [t |-> "null"]
JNum(n) == [t |-> "num", num |-> n]
JStr(s) == [t |-> "str", str |-> s]
JBool(b) == [t |-> "bool", bool |-> b]
JList(l) == [t |-> "list", items |-> l]
JDict(d) == [t |-> "dict", members |-> d]

\* {}
EmptyDict == JDict(<<>>)

\* a body response.json() cannot parse (it raises ValueError)
NotJson == [t |-> "notjson"]

\* d.get(k, default) is defined for dicts only: on any other value the
\* attribute lookup raises AttributeError
HasGet(j) == j.t = "dict"
DictGet(d, k, default) == IF k \in DOMAIN d.members THEN d.members[k] ELSE default

\* j == 1 in Python (True == 1 holds too)
PyEqualsOne(j) == \/ j.t = "num" /\ j.num = 1
                  \/ j.t = "bool" /\ j.bool = TRUE

\* the truth value of j in `if j:`
Truthy(j) ==
    CASE j.t = "null" -> FALSE
      [] j.t = "num"  -> j.num # 0
      [] j.t = "bool" -> j.bool
      [] j.t = "str"  -> j.str # ""
      [] j.t = "list" -> j.items # <<>>
      [] j.t = "dict" -> DOMAIN j.members # {}

\* a merge that keeps the values the dict already holds
UpdateKeepsOld(d, new) == d @@ new

\* dict.update(): the keys of `new` are set, the others kept
Update(d, new) == new @@ d

(* What requests.get(url, timeout=5) does: it raises (timeout, connection  *)
(* error) or returns a response with a status code and a body.             *)
RequestRaises == [kind |-> "raise"]
Http(status_code, body) == [kind |-> "http", status_code |-> status_code, body |-> body]

OffUrl(barcode) == "https://world.openfoodfacts.org/api/v0/product/" \o barcode \o ".json"
UpcUrl(barcode) == "https://api.upcitemdb.com/prod/trial/lookup?upc=" \o barcode

-----------------------------------------------------------------------------
(* ProductResolver: EnhancedBarcodeScanner.get_product_info (barcode.py)   *)
(* A try block ends in one of three ways: "return" (the function returns    *)
(* product_info), "next" (control falls out of the block) or "raise".       *)

\* lines 105-119: the fields of a food-catalog product
OffFields(product) ==
    LET nutriments == DictGet(product, "nutriments", EmptyDict)
    IN  [found |-> TRUE,
         name |-> DictGet(product, "product_name", JStr("Unknown Product")),
         brand |-> DictGet(product, "brands", JStr("Unknown Brand")),
         category |-> DictGet(product, "categories", JStr("Unknown Category")),
         origin |-> DictGet(product, "countries", JStr("Unknown")),
         ingredients |-> DictGet(product, "ingredients_text", JStr("N/A")),
         nutrition |-> [energy |-> DictGet(nutriments, "energy-kcal_100g", JStr("N/A")),
                        fat |-> DictGet(nutriments, "fat_100g", JStr("N/A")),
                        carbs |-> DictGet(nutriments, "carbohydrates_100g", JStr("N/A")),
                        protein |-> DictGet(nutriments, "proteins_100g", JStr("N/A"))],
         image_url |-> DictGet(product, "image_url", JNull)]

\* a found branch that lacks its `return product_info`
OffFoundFallsThrough == "next"

\* line 120: `return product_info` ends the function
OffFoundExit == "return"

\* lines 97-120: the body of the first try block
OffBody(info, response) ==
    IF response.kind = "raise" THEN [exit |-> "raise", info |-> info]
    ELSE IF response.status_code # 200 THEN [exit |-> "next", info |-> info]
    ELSE LET data == response.body
         IN  IF ~HasGet(data) THEN [exit |-> "raise", info |-> info]
             ELSE IF ~PyEqualsOne(DictGet(data, "status", JNull))
                  THEN [exit |-> "next", info |-> info]
             ELSE LET product == DictGet(data, "product", EmptyDict)
                  IN  IF ~HasGet(product)
                      THEN [exit |-> "raise", info |-> info]
                      ELSE IF ~HasGet(DictGet(product, "nutriments", EmptyDict))
                      THEN [exit |-> "raise", info |-> info]
                      ELSE [exit |-> OffFoundExit,
                            info |-> Update(info, OffFields(product))]

\* a generic-catalog mapping that also fills the food fields with placeholders
UpcFieldsWithFoodPlaceholders(item) ==
    [found |-> TRUE,
     name |-> DictGet(item, "title", JStr("Unknown Product")),
     brand |-> DictGet(item, "brand", JStr("Unknown Brand")),
     category |-> DictGet(item, "category", JStr("Unknown Category")),
     origin |-> JStr("N/A"),
     ingredients |-> JStr("N/A"),
     description |-> DictGet(item, "description", JStr("N/A"))]

\* lines 133-140: the fields of a generic-catalog item
UpcFields(item) ==
    [found |-> TRUE,
     name |-> DictGet(item, "title", JStr("Unknown Product")),
     brand |-> DictGet(item, "brand", JStr("Unknown Brand")),
     category |-> DictGet(item, "category", JStr("Unknown Category")),
     origin |-> JStr("N/A"),
     description |-> DictGet(item, "description", JStr("N/A"))]

\* lines 126-141: the body of the second try block
UpcBody(info, response) ==
    IF response.kind = "raise" THEN [exit |-> "raise", info |-> info]
    ELSE IF response.status_code # 200 THEN [exit |-> "next", info |-> info]
    ELSE LET data == response.body
         IN  IF ~HasGet(data) THEN [exit |-> "raise", info |-> info]
             ELSE LET items == DictGet(data, "items", JNull)
                  IN  IF ~Truthy(items) THEN [exit |-> "next", info |-> info]
                      \* data['items'][0]: a dict has no key 0, a number or a
                      \* bool no items; the first item of a str is a str
                      ELSE IF items.t # "list"
                      THEN [exit |-> "raise", info |-> info]
                      ELSE IF ~HasGet(items.items[1])
                      THEN [exit |-> "raise", info |-> info]
                      ELSE [exit |-> "return",
                            info |-> Update(info, UpcFields(items.items[1]))]

\* a try block without its handler
ExceptNothing(outcome) == outcome

\* an `except` clause that gives up: `return product_info`
ExceptReturns(outcome) ==
    IF outcome.exit = "raise" THEN [outcome EXCEPT !.exit = "return"] ELSE outcome

\* `except Exception as e: print(...)`: the exception ends there and control
\* goes on after the try statement
ExceptException(outcome) ==
    IF outcome.exit = "raise" THEN [outcome EXCEPT !.exit = "next"] ELSE outcome

\* The result is [info |-> the dict returned, raised |-> whether an exception
\* left the function, requests |-> the URLs requested, in order].
get_product_info(barcode, off, upc) ==
    LET initial == [barcode |-> barcode, found |-> FALSE]
        first == ExceptException(OffBody(initial, off))
    IN  IF first.exit # "next"
        THEN [info |-> first.info, raised |-> first.exit = "raise",
              requests |-> <<OffUrl(barcode)>>]
        ELSE LET second == ExceptException(UpcBody(first.info, upc))
             IN  [info |-> second.info, raised |-> second.exit = "raise",
                  requests |-> <<OffUrl(barcode), UpcUrl(barcode)>>]

-----------------------------------------------------------------------------
(* ProductResolver of the Streamlit front end: get_product_info (app.py)   *)

\* app.py lines 42-56
app_OffFields(product) ==
    LET nutriments == DictGet(product, "nutriments", EmptyDict)
    IN  [found |-> TRUE,
         name |-> DictGet(product, "product_name", JStr("Unknown Product")),
         brand |-> DictGet(product, "brands", JStr("Unknown Brand")),
         category |-> DictGet(product, "categories", JStr("Unknown Category")),
         origin |-> DictGet(product, "countries", JStr("Unknown")),
         ingredients |-> DictGet(product, "ingredients_text", JStr("N/A")),
         nutrition |-> [energy |-> DictGet(nutriments, "energy-kcal_100g", JStr("N/A")),
                        fat |-> DictGet(nutriments, "fat_100g", JStr("N/A")),
                        carbs |-> DictGet(nutriments, "carbohydrates_100g", JStr("N/A")),
                        protein |-> DictGet(nutriments, "proteins_100g", JStr("N/A"))],
         image_url |-> DictGet(product, "image_url", JNull)]

\* app.py lines 36-57: the body of the first try block
app_OffBody(info, response) ==
    IF response.kind = "raise" THEN [exit |-> "raise", info |-> info]
    ELSE IF response.status_code # 200 THEN [exit |-> "next", info |-> info]
    ELSE LET data == response.body
         IN  IF ~HasGet(data) THEN [exit |-> "raise", info |-> info]
             ELSE IF ~PyEqualsOne(DictGet(data, "status", JNull))
                  THEN [exit |-> "next", info |-> info]
             ELSE LET product == DictGet(data, "product", EmptyDict)
                  IN  IF ~HasGet(product)
                      THEN [exit |-> "raise", info |-> info]
                      ELSE IF ~HasGet(DictGet(product, "nutriments", EmptyDict))
                      THEN [exit |-> "raise", info |-> info]
                      ELSE [exit |-> "return",
                            info |-> Update(info, app_OffFields(product))]

\* app.py lines 69-75: no origin here
app_UpcFields(item) ==
    [found |-> TRUE,
     name |-> DictGet(item, "title", JStr("Unknown Product")),
     brand |-> DictGet(item, "brand", JStr("Unknown Brand")),
     category |-> DictGet(item, "category", JStr("Unknown Category")),
     description |-> DictGet(item, "description", JStr("N/A"))]

\* app.py lines 63-76: the body of the second try block
app_UpcBody(info, response) ==
    IF response.kind = "raise" THEN [exit |-> "raise", info |-> info]
    ELSE IF response.status_code # 200 THEN [exit |-> "next", info |-> info]
    ELSE LET data == response.body
         IN  IF ~HasGet(data) THEN [exit |-> "raise", info |-> info]
             ELSE LET items == DictGet(data, "items", JNull)
                  IN  IF ~Truthy(items) THEN [exit |-> "next", info |-> info]
                      ELSE IF items.t # "list"
                      THEN [exit |-> "raise", info |-> info]
                      ELSE IF ~HasGet(items.items[1])
                      THEN [exit |-> "raise", info |-> info]
                      ELSE [exit |-> "return",
                            info |-> Update(info, app_UpcFields(items.items[1]))]

\* app.py `except Exception: pass`
app_ExceptException(outcome) ==
    IF outcome.exit = "raise" THEN [outcome EXCEPT !.exit = "next"] ELSE outcome

app_get_product_info(barcode, off, upc) ==
    LET initial == [barcode |-> barcode, found |-> FALSE]
        first == app_ExceptException(app_OffBody(initial, off))
    IN  IF first.exit # "next"
        THEN [info |-> first.info, raised |-> first.exit = "raise",
              requests |-> <<OffUrl(barcode)>>]
        ELSE LET second == app_ExceptException(app_UpcBody(first.info, upc))
             IN  [info |-> second.info, raised |-> second.exit = "raise",
                  requests |-> <<OffUrl(barcode), UpcUrl(barcode)>>]

-----------------------------------------------------------------------------
(* Inputs of the resolver: what the two catalogs may answer                 *)

Codes == {"59", "5"}

MilkNutriments ==
    JDict(("energy-kcal_100g" :> JNum(64)) @@ ("fat_100g" :> JNum(4)) @@
          ("carbohydrates_100g" :> JNum(5)) @@ ("proteins_100g" :> JNum(3)))

\* a product with every field, one with a name only, one whose nutriments
\* are null, one whose ingredients are null
MilkProduct ==
    JDict([product_name |-> JStr("Milk"), brands |-> JStr("Acme"),
           categories |-> JStr("Dairy"), countries |-> JStr("France"),
           ingredients_text |-> JStr("milk"), nutriments |-> MilkNutriments,
           image_url |-> JStr("https://images.example/milk.jpg")])
TeaProduct == JDict([product_name |-> JStr("Tea")])
SaltProduct == JDict([product_name |-> JStr("Salt"), nutriments |-> JNull])
GumProduct == JDict([product_name |-> JStr("Gum"), ingredients_text |-> JNull])

OffFoundBody(product) == JDict([status |-> JNum(1), product |-> product])

OffResponses ==
    << RequestRaises,
      Http(404, NotJson),
      Http(500, OffFoundBody(MilkProduct)),
      Http(200, NotJson),
      Http(200, JList(<<>>)),
      Http(200, JDict([status |-> JNum(0), status_verbose |-> JStr("product not found")])),
      Http(200, JDict([status |-> JStr("1"), product |-> MilkProduct])),
      Http(200, JDict([status |-> JNum(1)])),
      Http(200, OffFoundBody(JNull)),
      Http(200, OffFoundBody(SaltProduct)),
      Http(200, OffFoundBody(MilkProduct)),
      Http(200, OffFoundBody(TeaProduct)),
      Http(200, OffFoundBody(GumProduct)) >>

PenItem ==
    JDict([title |-> JStr("Pen"), brand |-> JStr("Bic"),
           category |-> JStr("Office"), description |-> JStr("A pen")])

UpcResponses ==
    << RequestRaises,
      Http(429, JDict([items |-> JList(<<PenItem>>)])),
      Http(200, NotJson),
      Http(200, JList(<<PenItem>>)),
      Http(200, JDict([code |-> JStr("OK"), total |-> JNum(0)])),
      Http(200, JDict([items |-> JList(<<>>)])),
      Http(200, JDict([items |-> JList(<<JNull>>)])),
      Http(200, JDict([items |-> JDict([title |-> JStr("Pen")])])),
      Http(200, JDict([items |-> JList(<<PenItem>>)])),
      Http(200, JDict([items |-> JList(<<EmptyDict, PenItem>>)])) >>

-----------------------------------------------------------------------------
(* Specification of the resolver: both get_product_info functions on every *)
(* code and every pair of answers.                                         *)

InitResolver ==
    /\ Idle
    /\ \E barcode \in Codes :
       \E i \in DOMAIN OffResponses : \E j \in DOMAIN UpcResponses :
          arg = [barcode |-> barcode, off |-> OffResponses[i], upc |-> UpcResponses[j]]
    /\ ret = [fn |-> "none"]

Resolve ==
    /\ ret.fn = "none"
    /\ ret' = [fn |-> "get_product_info",
               val |-> get_product_info(arg.barcode, arg.off, arg.upc)]
    /\ UNCHANGED <<arg, scannerVars>>

AppResolve ==
    /\ ret.fn = "none"
    /\ ret' = [fn |-> "app.get_product_info",
               val |-> app_get_product_info(arg.barcode, arg.off, arg.upc)]
    /\ UNCHANGED <<arg, scannerVars>>

NextResolver == Resolve \/ AppResolve

SpecResolver == InitResolver /\ [][NextResolver]_vars

Resolved == ret.fn \in {"get_product_info", "app.get_product_info"}

\* the number of times x occurs in the list seq
Count(seq, x) == Cardinality({ i \in DOMAIN seq : seq[i] = x })

\* The answer r of the food catalog is a well-formed "found": status 200, a
\* JSON object with status 1 whose product (when present) is an object whose
\* nutriments (when present) are an object.
OffWellFormedFound(r) ==
    /\ r.kind = "http"
    /\ r.status_code = 200
    /\ r.body.t = "dict"
    /\ "status" \in DOMAIN r.body.members
    /\ PyEqualsOne(r.body.members["status"])
    /\ "product" \in DOMAIN r.body.members =>
          /\ r.body.members["product"].t = "dict"
          /\ "nutriments" \in DOMAIN r.body.members["product"].members =>
                r.body.members["product"].members["nutriments"].t = "dict"

\* The answer r of the generic catalog is a well-formed "found": status 200, a
\* JSON object whose items are a non-empty list with an object first.
UpcWellFormedFound(r) ==
    /\ r.kind = "http"
    /\ r.status_code = 200
    /\ r.body.t = "dict"
    /\ "items" \in DOMAIN r.body.members
    /\ r.body.members["items"].t = "list"
    /\ r.body.members["items"].items # <<>>
    /\ r.body.members["items"].items[1].t = "dict"

\* the name the food catalog's answer r gives the product
OffNameOf(r) ==
    IF "product" \in DOMAIN r.body.members /\ "product_name" \in DOMAIN r.body.members["product"].members
    THEN r.body.members["product"].members["product_name"]
    ELSE JStr("Unknown Product")

\* the name the generic catalog's answer r gives the product
UpcNameOf(r) ==
    IF "title" \in DOMAIN r.body.members["items"].items[1].members
    THEN r.body.members["items"].items[1].members["title"]
    ELSE JStr("Unknown Product")

OffFieldNames == {"barcode", "found", "name", "brand", "category", "origin",
                  "ingredients", "nutrition", "image_url"}

\* C7: in one get_product_info call the food catalog is requested first and
\* once; the generic catalog is requested at most once, after it, and only
\* when the food catalog gave no well-formed "found"; when it gave one, the
\* generic catalog is not requested and the result is the food catalog's
\* mapping.
C7_ShortCircuitAndOrder ==
    Resolved =>
        LET reqs == ret.val.requests
            off == OffUrl(arg.barcode)
            upc == UpcUrl(arg.barcode)
        IN  /\ reqs # <<>>
            /\ reqs[1] = off
            /\ Count(reqs, off) = 1
            /\ Count(reqs, upc) <= 1
            /\ Count(reqs, upc) = 1 => ~OffWellFormedFound(arg.off)
            /\ OffWellFormedFound(arg.off) =>
                  /\ Count(reqs, upc) = 0
                  /\ ret.val.info["found"] = TRUE
                  /\ DOMAIN ret.val.info = OffFieldNames
                  /\ ret.val.info["name"] = OffNameOf(arg.off)

\* C7 witness: both catalogs would answer "found", only the food catalog was
\* requested and its product is the result.
C7_Witness ==
    /\ Resolved
    /\ OffWellFormedFound(arg.off)
    /\ UpcWellFormedFound(arg.upc)
    /\ ret.val.requests = <<OffUrl(arg.barcode)>>
    /\ ret.val.info["name"] = JStr("Milk")

\* a well-formed "not found" of the food catalog
OffNotFound == Http(200, JDict([status |-> JNum(0)]))

\* the result of the function that was applied, had the food catalog answered off
ResultWith(off) ==
    IF ret.fn = "get_product_info"
    THEN get_product_info(arg.barcode, off, arg.upc)
    ELSE app_get_product_info(arg.barcode, off, arg.upc)

\* C8: whenever the food catalog fails (request error, status other than
\* 200, unparseable or unexpectedly shaped JSON) or answers a well-formed
\* "not found", the generic catalog is requested; if it answers "found" its
\* product is the result; and the result is the one a well-formed "not found"
\* of the food catalog gives.
C8_Fallback ==
    (Resolved /\ ~OffWellFormedFound(arg.off)) =>
        /\ ret.val.requests = <<OffUrl(arg.barcode), UpcUrl(arg.barcode)>>
        /\ UpcWellFormedFound(arg.upc) =>
              /\ ret.val.info["found"] = TRUE
              /\ ret.val.info["name"] = UpcNameOf(arg.upc)
              /\ "description" \in DOMAIN ret.val.info
        /\ ret.val.info = ResultWith(OffNotFound).info

\* C8 witness: the request to the food catalog raised (a timeout), the
\* generic catalog answered "found" and its product is the result.
C8_Witness ==
    /\ Resolved
    /\ arg.off = RequestRaises
    /\ UpcWellFormedFound(arg.upc)
    /\ ret.val.info["found"] = TRUE
    /\ ret.val.info["name"] = JStr("Pen")

\* C9: get_product_info never raises to its caller, the result carries the
\* code it was given and, when neither catalog gave a well-formed "found",
\* is exactly {barcode: code, found: False}.
C9_Total ==
    Resolved =>
        /\ ret.val.raised = FALSE
        /\ ret.val.info["barcode"] = arg.barcode
        /\ (~OffWellFormedFound(arg.off) /\ ~UpcWellFormedFound(arg.upc)) =>
              ret.val.info = [barcode |-> arg.barcode, found |-> FALSE]

\* C9 witness: both catalogs answered 200 with a body that raises part-way
\* (a null product, a null item) and the result is {barcode, found: False}.
C9_Witness ==
    /\ Resolved
    /\ arg.off = Http(200, OffFoundBody(JNull))
    /\ arg.upc = Http(200, JDict([items |-> JList(<<JNull>>)]))
    /\ ret.val.raised = FALSE
    /\ ret.val.info = [barcode |-> arg.barcode, found |-> FALSE]

-----------------------------------------------------------------------------
(* ScanGate, ScanHistory and the scan loop: EnhancedBarcodeScanner.run      *)

\* self.scan_cooldown, in seconds
scan_cooldown == 2

\* the cooldown in ticks
Cooldown == scan_cooldown * TicksPerSecond

\* time.strftime("%H:%M:%S") at tick t: the time of day, to the second
strftime(t) ==
    LET s == (t \div TicksPerSecond) % 86400
    IN  <<s \div 3600, (s \div 60) % 60, s % 60>>

\* a gate that opens at the cooldown already
GateOpenAtCooldown(scan_key, current_time, last, last_time) ==
    scan_key # last \/ current_time - last_time >= Cooldown

\* a gate that looks at the time only
GateOpenTimeOnly(scan_key, current_time, last, last_time) ==
    last = None \/ current_time - last_time > Cooldown

\* lines 285-286: the condition of the gate
GateOpen(scan_key, current_time, last, last_time) ==
    scan_key # last \/ current_time - last_time > Cooldown

\* a gate that restarts the cooldown at every sighting
GateAfterSliding(open, scan_key, current_time, last, last_time) ==
    IF open THEN <<scan_key, current_time>> ELSE <<last, current_time>>

\* lines 285-290: (last_scanned, last_scan_time) after the gate
GateAfter(open, scan_key, current_time, last, last_time) ==
    IF open THEN <<scan_key, current_time>> ELSE <<last, last_time>>

\* a history that puts the newest record first
HistoryAfterNewestFirst(open, history, record) ==
    IF open THEN <<record>> \o history ELSE history

\* a loop that records every sighting
HistoryAfterEverySighting(open, history, record) == Append(history, record)

\* lines 285-297: scan_history after the gate
HistoryAfter(open, history, record) ==
    IF open THEN Append(history, record) ELSE history

\* a reset that clears nothing
ResetKeeps(last) == last

\* line 335: self.last_scanned = None
ResetGate(last) == None

\* line 181: info['ingredients'][:200] raises TypeError unless the
\* ingredients are a str or a list (lines 164-182 raise nowhere else)
display_raises(info) ==
    /\ info["found"]
    /\ "ingredients" \in DOMAIN info
    /\ info["ingredients"] # JStr("N/A")
    /\ info["ingredients"].t \notin {"str", "list"}

\* What the scan loop is shown and told
LoopFrames ==
    UNION { FramesOf(n, {1}, BarcodeTypes, {<<53, 57>>}) : n \in 0..MaxLoopRaw }

LoopOffResponses ==
    << RequestRaises, Http(200, OffFoundBody(MilkProduct)),
       Http(200, OffFoundBody(GumProduct)) >>

LoopUpcResponses ==
    << Http(200, JDict([items |-> JList(<<>>)])) >>

\* the time that passes between two readings of the clock
Deltas == {0, 1, Cooldown \div 4, Cooldown, Cooldown + 1}

\* the time that passes between time.time() (line 282) and time.strftime()
\* (line 294)
Lags == {0, 1}

\* lines 8-12 and 356-358: a new scanner, whose run() is about to read its
\* first frame
Init ==
    /\ Idle
    /\ arg = None
    /\ ret = None

\* lines 256-267: cap.read() gives one of `frames`, which is decoded; no frame
\* is read that could take the history beyond `limit` records
ReadFrameOf(frames, limit) ==
    /\ pc = "read"
    /\ \E frame \in frames :
          /\ Len(scan_history) + Len(detect_barcodes_enhanced(frame)) <= limit
          /\ barcodes' = detect_barcodes_enhanced(frame)
    /\ idx' = 1
    /\ pc' = "loop"
    /\ UNCHANGED <<last_scanned, last_scan_time, scan_history, clock, product_info,
                   call, trig_time, lookups, triggers, boot, app_lookups, arg, ret>>

ReadFrame == ReadFrameOf(LoopFrames, MaxHistory)

\* lines 256-259: cap.read() fails and the loop ends
ReadFails ==
    /\ pc = "read"
    /\ pc' = "stopped"
    /\ UNCHANGED <<last_scanned, last_scan_time, scan_history, barcodes, idx, clock,
                   product_info, call, trig_time, lookups, triggers, boot,
                   app_lookups, arg, ret>>

\* the time of the last trigger of key, -1 when it never triggered
LastTrigger(key) == IF key \in DOMAIN trig_time THEN trig_time[key] ELSE -1

\* lines 270-301: one candidate of the frame goes through the gate
ProcessBarcode ==
    /\ pc = "loop"
    /\ idx <= Len(barcodes)
    /\ \E d \in Deltas : \E lag \in Lags :
       \E i \in DOMAIN LoopOffResponses : \E j \in DOMAIN LoopUpcResponses :
          LET barcode == barcodes[idx]
              barcode_data == barcode_data_of(barcode)
              current_time == clock + d
              scan_key == ScanKey(barcode.type, barcode_data)
              open == GateOpen(scan_key, current_time, last_scanned, last_scan_time)
              after == GateAfter(open, scan_key, current_time, last_scanned, last_scan_time)
              record == [time |-> strftime(current_time + lag),
                         type |-> barcode.type, data |-> barcode_data]
              info == get_product_info(barcode_data, LoopOffResponses[i],
                                       LoopUpcResponses[j]).info
          IN  /\ current_time + lag - boot <= MaxElapsed
              /\ last_scanned' = after[1]
              /\ last_scan_time' = after[2]
              /\ scan_history' = HistoryAfter(open, scan_history, record)
              /\ IF open
                 THEN /\ clock' = current_time + lag
                      /\ product_info' = info
                      /\ lookups' = lookups + 1
                      /\ triggers' = triggers + 1
                      /\ trig_time' = (scan_key :> current_time) @@ trig_time
                      /\ pc' = IF display_raises(info) THEN "crashed" ELSE "loop"
                 ELSE /\ lag = 0 /\ i = 1 /\ j = 1
                      /\ clock' = current_time
                      /\ UNCHANGED <<product_info, lookups, triggers, trig_time, pc>>
              /\ call' = [op |-> "scan", key |-> scan_key, now |-> current_time,
                          fired |-> open,
                          streak |-> IF open \/ scan_key = call.streak
                                     THEN scan_key ELSE "",
                          prev_key |-> last_scanned, prev_time |-> last_scan_time,
                          prev_op |-> call.op, prev_call_key |-> call.key,
                          prev_call_now |-> call.now, prev_call_fired |-> call.fired,
                          prev_streak |-> call.streak,
                          key_last_trigger |-> LastTrigger(scan_key),
                          order |-> IF open THEN <<"append", "lookup">>
                                    ELSE <<>>]
    /\ idx' = idx + 1
    /\ UNCHANGED <<barcodes, boot, app_lookups, arg, ret>>

\* lines 303-347: the frame is shown and a key, if any, is handled
HandleKey ==
    /\ pc = "loop"
    /\ idx > Len(barcodes)
    /\ \E key \in {"q", "r", "h", ""} :
          /\ pc' = IF key = "q" THEN "stopped" ELSE "read"
          /\ last_scanned' = IF key = "r" THEN ResetGate(last_scanned) ELSE last_scanned
          /\ call' = IF key = "r"
                     THEN [op |-> "reset", key |-> call.key, now |-> call.now,
                           fired |-> call.fired, streak |-> ""]
                     ELSE call
    /\ UNCHANGED <<last_scan_time, scan_history, barcodes, idx, clock, product_info,
                   trig_time, lookups, triggers, boot, app_lookups, arg, ret>>

Next == ReadFrame \/ ReadFails \/ ProcessBarcode \/ HandleKey

Spec == Init /\ [][Next]_vars

-----------------------------------------------------------------------------
(* The gate and the history in the scan loop.  `call` describes the last   *)
(* candidate that went through the gate: its key, the time read, whether   *)
(* the gate's branch was taken, and the gate's slot before it.             *)

Scanned == call.op = "scan"

\* C1: a call of the gate for key at time now triggers, and sets
\* (last_scanned, last_scan_time) to (key, now), if and only if last_scanned
\* is None, or key differs from it, or now - last_scan_time exceeds the
\* cooldown; the first call of a scanner triggers.
C1_GateCondition ==
    Scanned =>
        /\ call.fired <=> \/ call.prev_key = None
                          \/ call.key # call.prev_key
                          \/ call.now - call.prev_time > Cooldown
        /\ call.fired => (last_scanned = call.key /\ last_scan_time = call.now)
        /\ call.prev_op = "none" => call.fired

\* C1 witness: the key of the slot is seen again just after the cooldown
\* and triggers.
C1_Witness ==
    /\ Scanned
    /\ call.fired
    /\ call.prev_key = call.key
    /\ call.now - call.prev_time = Cooldown + 1
    /\ last_scan_time = call.now

\* C2: when only key K was seen since K last triggered at t0, and no reset
\* happened since, K seen at time t triggers if and only if t - t0 exceeds
\* the cooldown, t0 being the time of the last trigger of K.
C2_CooldownFromLastTrigger ==
    (Scanned /\ call.prev_streak = call.key) =>
        (call.fired <=> call.now - call.key_last_trigger > Cooldown)

\* C2 witness: K triggered at t0, was suppressed at a later time within the
\* cooldown and triggers at t0 + cooldown + 1 tick.
C2_Witness ==
    /\ Scanned
    /\ call.prev_streak = call.key
    /\ call.prev_op = "scan"
    /\ ~call.prev_call_fired
    /\ call.prev_call_now > call.key_last_trigger
    /\ call.now - call.key_last_trigger = Cooldown + 1
    /\ call.fired

\* C3: a call for a key made right after a triggered call for another key
\* triggers, however recently the key itself last triggered.
C3_SingleSlot ==
    (/\ Scanned
     /\ call.prev_op = "scan"
     /\ call.prev_call_fired
     /\ call.prev_call_key # call.key) => call.fired

\* C3 witness: K1 triggered, K2 triggered after it, and K1 triggers again
\* within the cooldown of its own last trigger.
C3_Witness ==
    /\ Scanned
    /\ call.prev_op = "scan"
    /\ call.prev_call_fired
    /\ call.prev_call_key # call.key
    /\ call.key_last_trigger >= 0
    /\ call.now - call.key_last_trigger <= Cooldown
    /\ call.fired
    /\ Len(scan_history) = 3

\* the step handles a candidate whose key is in the slot within the cooldown
SuppressedStep ==
    /\ pc = "loop"
    /\ idx <= Len(barcodes)
    /\ idx' = idx + 1
    /\ KeyOf(barcodes[idx]) = last_scanned
    /\ call'.now - last_scan_time <= Cooldown

\* C4: a suppressed detection (the key of the slot, within the cooldown)
\* changes neither last_scanned nor last_scan_time nor the history, and no
\* product lookup is made.
C4_SuppressedChangesNothing ==
    [][SuppressedStep =>
          /\ last_scanned' = last_scanned
          /\ last_scan_time' = last_scan_time
          /\ scan_history' = scan_history
          /\ lookups' = lookups
          /\ product_info' = product_info]_vars

\* C4 witness: a candidate was suppressed some time after the trigger of its
\* key, which the slot and the history still hold.
C4_Witness ==
    /\ Scanned
    /\ ~call.fired
    /\ call.now > last_scan_time
    /\ last_scanned = call.key
    /\ Len(scan_history) = 1
    /\ lookups = 1

\* C5: the first candidate through the gate after a reset triggers, whatever
\* the slot held and however little time has passed.
C5_ResetForcesTrigger ==
    (Scanned /\ call.prev_op = "reset") => call.fired

\* C5 witness: a key was suppressed, the gate was reset, and the same key
\* triggers at the very time it was suppressed.
C5_Witness ==
    /\ Scanned
    /\ call.prev_op = "reset"
    /\ call.prev_call_key = call.key
    /\ ~call.prev_call_fired
    /\ call.prev_call_now = call.now
    /\ call.fired

\* C10: the history holds one record per trigger, and one product lookup was
\* made per trigger.
C10_OneRecordPerTrigger ==
    /\ Len(scan_history) = triggers
    /\ lookups = triggers

\* C10 witness: one code seen at 0 s (trigger), 1 s (suppressed) and 3 s
\* (trigger): the history holds 2 records.
C10_Witness ==
    /\ Scanned
    /\ call.fired
    /\ call.now = 3 * TicksPerSecond
    /\ call.prev_key = call.key
    /\ call.prev_time = 0
    /\ call.prev_op = "scan"
    /\ ~call.prev_call_fired
    /\ call.prev_call_now = TicksPerSecond
    /\ Len(scan_history) = 2
    /\ triggers = 2

-----------------------------------------------------------------------------
(* The shape of the resolver's results                                     *)

\* C12: a result of get_product_info with found = False carries no optional
\* field: its keys are barcode and found only.
C12_NotFoundHasNoFields ==
    (Resolved /\ ret.val.info["found"] = FALSE) =>
        DOMAIN ret.val.info = {"barcode", "found"}

\* C12 witness: the food catalog answered status 1 with a product whose
\* nutriments are null, so the mapping raised part-way; the generic catalog
\* answered an empty item list; the result has the two keys only.
C12_Witness ==
    /\ Resolved
    /\ arg.off = Http(200, OffFoundBody(SaltProduct))
    /\ arg.upc = Http(200, JDict([items |-> JList(<<>>)]))
    /\ ret.val.info["found"] = FALSE
    /\ DOMAIN ret.val.info = {"barcode", "found"}

\* the result came from the food catalog: found, and nothing else was asked
FoundByOff == /\ Resolved
              /\ ret.val.info["found"] = TRUE
              /\ Len(ret.val.requests) = 1

\* the result came from the generic catalog: found after the second request
FoundByUpc == /\ Resolved
              /\ ret.val.info["found"] = TRUE
              /\ Len(ret.val.requests) = 2

UpcFieldNames == {"barcode", "found", "name", "brand", "category",
                  "description"}

\* C15 as stated: a found result of the food catalog carries nutrition,
\* ingredients and origin; a found result of the generic catalog carries
\* name, brand, category and description only (no origin, ingredients,
\* nutrition or image URL).
C15_PerSourceFields ==
    /\ FoundByOff =>
          {"nutrition", "ingredients", "origin"} \subseteq DOMAIN ret.val.info
    /\ FoundByUpc => DOMAIN ret.val.info = UpcFieldNames

\* C15 amended: a found result of the food catalog carries nutrition,
\* ingredients and origin; a found result of the generic catalog carries
\* name, brand, category and description, never ingredients, nutrition or an
\* image URL; in barcode.py it also carries origin, always the placeholder
\* 'N/A', and in app.py it carries no origin.
C15_PerSourceFieldsOriginPlaceholder ==
    /\ FoundByOff =>
          {"nutrition", "ingredients", "origin"} \subseteq DOMAIN ret.val.info
    /\ FoundByUpc =>
          /\ DOMAIN ret.val.info \ {"origin"} = UpcFieldNames
          /\ "origin" \in DOMAIN ret.val.info <=> ret.fn = "get_product_info"
          /\ "origin" \in DOMAIN ret.val.info =>
                ret.val.info["origin"] = JStr("N/A")

\* C15 witness: barcode.py resolved a code through the generic catalog, and
\* the result has an origin.
C15_Witness ==
    /\ FoundByUpc
    /\ ret.fn = "get_product_info"
    /\ arg.upc = Http(200, JDict([items |-> JList(<<PenItem>>)]))
    /\ ret.val.info["origin"] = JStr("N/A")
    /\ ret.val.info["name"] = UpcNameOf(arg.upc)

-----------------------------------------------------------------------------
(* First-occurrence precedence of the decoder                              *)

\* the place p of a detection comes before the place q in pipeline order:
\* an earlier variant, or the same variant and an earlier detection
PlaceBefore(p, q) == \/ p[1] < q[1]
                     \/ p[1] = q[1] /\ p[2] < q[2]

\* C18: every candidate of the output is the detection (geometry included) of
\* the earliest variant that reported its key, the earliest one within that
\* variant, and the output is in the order of the first occurrences.
C18_FirstOccurrence ==
    Detected =>
        /\ \A i \in DOMAIN ret.val :
              /\ ret.val[i] \in RawOf(arg)
              /\ \A r \in RawOf(arg) :
                    KeyOf(r) = KeyOf(ret.val[i]) =>
                        ~PlaceBefore(r.polygon, ret.val[i].polygon)
        /\ \A i \in DOMAIN ret.val : \A j \in DOMAIN ret.val :
              i < j => PlaceBefore(ret.val[i].polygon, ret.val[j].polygon)

\* C18 witness: a key is reported by a detection of one variant and again by a
\* later variant, another key is first reported in between; the output is the
\* first detection of the one, then the first detection of the other.
C18_Witness ==
    /\ Detected
    /\ Len(ret.val) = 2
    /\ \E r \in RawOf(arg) :
          /\ KeyOf(r) = KeyOf(ret.val[1])
          /\ PlaceBefore(ret.val[2].polygon, r.polygon)

-----------------------------------------------------------------------------
(* A decode that fails on one variant                                      *)

\* C17 as stated: when the decode capability fails on one variant, the decoder
\* takes that variant for no detection and still decodes the other variants:
\* it returns what it returns for the frame whose failing variant reports
\* nothing.
C17_FailedVariantSkipped ==
    ret.fn = "detect_barcodes_enhanced" =>
        /\ ~ret.raised
        /\ ret.val = detect_barcodes_enhanced(WithoutFailures(arg))

-----------------------------------------------------------------------------
(* The history view: the 'h' key of run()                                 *)

\* the 10 of scan_history[-10:]
HistoryWindow == 10

\* seq[:n], the first n elements
PySliceFirst(seq, n) ==
    IF Len(seq) <= n THEN seq ELSE SubSeq(seq, 1, n)

\* seq[-n:], for n > 0
PySliceLast(seq, n) ==
    IF Len(seq) <= n THEN seq ELSE SubSeq(seq, Len(seq) - n + 1, Len(seq))

\* lines 341-346: the lines the 'h' key prints for a history, one per record
\* of scan_history[-10:], numbered from 1; none for an empty history ("No
\* scans yet!")
history_view(history) ==
    LET shown == PySliceLast(history, HistoryWindow)
    IN  [k \in 1..Len(shown) |->
            [idx |-> k, time |-> shown[k].time, type |-> shown[k].type,
             data |-> shown[k].data]]

\* the longest history viewed
MaxViewLen == 12

\* the patterns from which the types and payloads of a viewed history are drawn
ViewPatterns == 1..4

\* The history of n records appended `every` ticks apart, the symbology and
\* the payload alternating as the pattern says.
HistoryOf(n, every, pattern) ==
    [i \in 1..n |->
        [time |-> strftime(i * every),
         type |-> IF (i \div pattern) % 2 = 0 THEN "EAN13" ELSE "QRCODE",
         data |-> IF i % pattern = 0 THEN "59" ELSE "5"]]

\* Specification of the history view: the 'h' key on every history of at most
\* MaxViewLen records.
InitView ==
    /\ Idle
    /\ \E n \in 0..MaxViewLen : \E every \in {TicksPerSecond, 2 * TicksPerSecond} :
          \E pattern \in ViewPatterns : arg = HistoryOf(n, every, pattern)
    /\ ret = [fn |-> "none"]

ShowHistory ==
    /\ ret.fn = "none"
    /\ ret' = [fn |-> "history_view", val |-> history_view(arg)]
    /\ UNCHANGED <<arg, scannerVars>>

NextView == ShowHistory

SpecView == InitView /\ [][NextView]_vars

Viewed == ret.fn = "history_view"

Min(a, b) == IF a <= b THEN a ELSE b

-----------------------------------------------------------------------------
(* The Streamlit session of app.py: the live-camera tab (lines 101-156)    *)

\* app.py lines 17-25, detect_barcodes on what the decode capability finds
\* in the frame: a (type, payload text, detection) tuple per detection
app_detect_barcodes(found) ==
    [k \in DOMAIN found |-> <<found[k].type, barcode_data_of(found[k]), found[k]>>]

\* a guard that looks at the last record only
AppUnseenSinceLast(barcode_data, history) ==
    history = <<>> \/ history[Len(history)].data # barcode_data

\* app.py line 131: barcode_data not in [h["data"] for h in scan_history]
AppUnseen(barcode_data, history) ==
    \A h \in DOMAIN history : history[h].data # barcode_data

\* app.py lines 138-153: showing a found product raises KeyError when one of
\* the fields read by subscript is missing, TypeError when the ingredients
\* cannot be sliced
app_display_raises(info) ==
    /\ info["found"]
    /\ \/ \E f \in {"name", "brand", "category", "origin"} : f \notin DOMAIN info
       \/ /\ "ingredients" \in DOMAIN info
          /\ info["ingredients"].t \notin {"str", "list"}

\* what the two catalogs answer to a lookup of the session: nothing found, a
\* food product, a generic-catalog item
AppAnswers ==
    << [off |-> RequestRaises, upc |-> Http(200, JDict([items |-> JList(<<>>)]))],
       [off |-> Http(200, OffFoundBody(MilkProduct)), upc |-> RequestRaises],
       [off |-> RequestRaises, upc |-> Http(200, JDict([items |-> JList(<<PenItem>>)]))] >>

\* what the decode capability finds in a camera image
AppPayloads == {<<53, 57>>, <<53>>}
AppFound ==
    { frame[2] : frame \in UNION { FramesOf(n, {2}, BarcodeTypes, AppPayloads) :
                                      n \in 0..MaxLoopRaw } }

\* app.py lines 127-153: the loop over the results from the k-th on; answers
\* says what the catalogs answer for each payload; st is [history |->
\* session_state.scan_history, lookups |-> the payloads looked up, raised |->
\* an exception ended the script run].
RECURSIVE AppResultsFrom(_, _, _, _, _)
AppResultsFrom(results, k, answers, now, st) ==
    IF k > Len(results) THEN st
    ELSE LET barcode_type == results[k][1]
             barcode_data == results[k][2]
         IN  IF AppUnseen(barcode_data, st.history)
             THEN LET answer == AppAnswers[answers[barcode_data]]
                      info == app_get_product_info(barcode_data, answer.off,
                                                   answer.upc).info
                      next == [history |-> Append(st.history,
                                   [time |-> strftime(now), type |-> barcode_type,
                                    data |-> barcode_data, info |-> info]),
                               lookups |-> Append(st.lookups, barcode_data),
                               raised |-> app_display_raises(info)]
                  IN  IF next.raised THEN next
                      ELSE AppResultsFrom(results, k + 1, answers, now, next)
             ELSE AppResultsFrom(results, k + 1, answers, now, st)

\* the time that passes between two script runs
AppDeltas == {0, Cooldown + 1}

\* a new Streamlit session (lines 102-103)
InitApp ==
    /\ SessionAt(0, "app")
    /\ arg = None
    /\ ret = None

\* app.py lines 112-156: a script run with a camera image
CameraFrame ==
    /\ pc = "app"
    /\ \E d \in AppDeltas : \E found \in AppFound :
       \E answers \in [{ Utf8DecodeIgnore(p) : p \in AppPayloads } -> DOMAIN AppAnswers] :
          LET results == app_detect_barcodes(found)
              now == clock + d
              st == AppResultsFrom(results, 1, answers, now,
                        [history |-> scan_history, lookups |-> app_lookups,
                         raised |-> FALSE])
          IN  /\ now - boot <= MaxElapsed
              /\ clock' = now
              /\ scan_history' = st.history
              /\ app_lookups' = st.lookups
              /\ call' = [op |-> "app", raised |-> st.raised,
                          again |->
                              /\ d > Cooldown
                              /\ \E k \in DOMAIN results : \E h \in DOMAIN scan_history :
                                    /\ scan_history[h].data = results[k][2]
                                    /\ scan_history[h].type # results[k][1]]
    /\ UNCHANGED <<last_scanned, last_scan_time, pc, barcodes, idx, product_info,
                   trig_time, lookups, triggers, boot, arg, ret>>

NextApp == CameraFrame

SpecApp == InitApp /\ [][NextApp]_vars

\* C19: in a Streamlit session no two history records have the same payload,
\* and no payload is looked up twice, whatever the symbologies of the
\* detections and the time between the camera frames.
C19_OneRecordAndLookupPerPayload ==
    pc = "app" =>
        /\ \A i \in DOMAIN scan_history : \A j \in DOMAIN scan_history :
              i < j => scan_history[i].data # scan_history[j].data
        /\ \A i \in DOMAIN app_lookups : \A j \in DOMAIN app_lookups :
              i < j => app_lookups[i] # app_lookups[j]
        /\ Len(app_lookups) = Len(scan_history)

\* C19 witness: more than the CLI's cooldown after a payload was recorded, a
\* camera frame showed it again under another symbology; the history holds
\* its one record and the record of one other payload.
C19_Witness ==
    /\ pc = "app"
    /\ call.op = "app"
    /\ call.again
    /\ Len(scan_history) = 2
    /\ app_lookups = <<scan_history[1].data, scan_history[2].data>>

-----------------------------------------------------------------------------
(* A session of either front end                                           *)

InitSessions == Init \/ InitApp

NextSessions == Next \/ NextApp

\* Specification of a session: the scan loop of barcode.py or the Streamlit
\* session of app.py.
SpecSessions == InitSessions /\ [][NextSessions]_vars

\* the list s is a prefix of the list t
IsPrefix(s, t) == Len(s) <= Len(t) /\ SubSeq(t, 1, Len(s)) = s

\* C11: the history is append-only: every step of a session (a frame, a
\* candidate, a reset, a history view, a camera frame of the Streamlit
\* session) leaves a history of which the previous one is a prefix.
C11_AppendOnly == [][IsPrefix(scan_history, scan_history')]_vars

\* C11 witness: the history held two records or more when the gate was reset,
\* and it still holds them.
C11_Witness ==
    /\ call.op = "reset"
    /\ last_scanned = None
    /\ Len(scan_history) >= 2
    /\ pc = "read"

-----------------------------------------------------------------------------
(* The timestamps of the history                                           *)

\* the ticks of a day
DayTicks == 86400 * TicksPerSecond

\* a scanner whose run() starts one second before midnight
InitMidnight ==
    /\ SessionAt(DayTicks - TicksPerSecond, "read")
    /\ arg = None
    /\ ret = None

\* Specification of the scan loop started one second before midnight.
SpecMidnight == InitMidnight /\ [][Next]_vars

\* the "%H:%M:%S" time a is not after the time b
TimeLeq(a, b) ==
    \/ a[1] < b[1]
    \/ a[1] = b[1] /\ a[2] < b[2]
    \/ a[1] = b[1] /\ a[2] = b[2] /\ a[3] <= b[3]

\* C13 as stated: in every reachable history the recorded timestamps are
\* non-decreasing in insertion order.
C13_TimestampsNonDecreasing ==
    \A i \in DOMAIN scan_history : \A j \in DOMAIN scan_history :
        i < j => TimeLeq(scan_history[i].time, scan_history[j].time)

-----------------------------------------------------------------------------
(* The lookup and the history record of a trigger                          *)

\* C16 as stated: for every accepted trigger the product lookup completes
\* before the history record is appended, and the record holds the timestamp,
\* the symbology, the payload and the ProductInfo resolved for that trigger.
C16_LookupThenRecordWithInfo ==
    (call.op = "scan" /\ call.fired) =>
        LET record == scan_history[Len(scan_history)]
        IN  /\ call.order = <<"lookup", "append">>
            /\ DOMAIN record = {"time", "type", "data", "info"}
            /\ record.type \o ":" \o record.data = call.key
            /\ record["info"] = product_info

-----------------------------------------------------------------------------
(* Frames that keep showing the same codes                                 *)

\* the frames with two or more candidates which the decoder takes for the
\* candidates of the frame before (any such frame while none was read)
SteadyFrames ==
    { frame \in LoopFrames :
        /\ Len(detect_barcodes_enhanced(frame)) >= 2
        /\ barcodes = <<>> \/ detect_barcodes_enhanced(frame) = barcodes }

\* cap.read() gives a frame with the codes of the frame before
SteadyReadFrame == ReadFrameOf(SteadyFrames, 2 * MaxHistory)

NextSteady == SteadyReadFrame \/ ReadFails \/ ProcessBarcode \/ HandleKey

\* Specification of the scan loop in front of which the same two or more
\* codes stay, frame after frame.
SpecSteady == Init /\ [][NextSteady]_vars

\* C20: when every frame holds the same two or more distinct codes, every
\* candidate of every frame takes the gate's branch, whatever the time since
\* the frame before: it is looked up and recorded.
C20_EveryCandidateTriggers ==
    Scanned =>
        /\ call.fired
        /\ scan_history[Len(scan_history)].type \o ":"
              \o scan_history[Len(scan_history)].data = call.key
        /\ Len(scan_history) = lookups
        /\ product_info["barcode"] = scan_history[Len(scan_history)].data

\* C20 witness: the first candidate of the third frame triggered, no time
\* after the candidate before it, and its key has triggered twice before.
C20_Witness ==
    /\ Scanned
    /\ call.fired
    /\ Len(scan_history) = 5
    /\ lookups = 5
    /\ call.now = call.prev_call_now
    /\ scan_history[1].type = scan_history[3].type
    /\ scan_history[3].type = scan_history[5].type
    /\ scan_history[1].type # scan_history[2].type

-----------------------------------------------------------------------------
(* The gate's slot and the history                                         *)

\* the key "symbology:payload" of a history record
RecordKey(record) == record.type \o ":" \o record.data

\* C21: in every reachable state of the scanner, last_scanned is None or the
\* key of the last history record, and it is None while the history is empty.
C21_SlotAgreesWithHistory ==
    /\ last_scanned # None =>
          /\ scan_history # <<>>
          /\ last_scanned = RecordKey(scan_history[Len(scan_history)])
    /\ scan_history = <<>> => last_scanned = None

\* C21 witness: two keys were recorded, the second was then seen again and
\* suppressed; the slot holds the key of the last record, not of the first.
C21_Witness ==
    /\ Scanned
    /\ ~call.fired
    /\ Len(scan_history) >= 2
    /\ last_scanned = RecordKey(scan_history[Len(scan_history)])
    /\ last_scanned # RecordKey(scan_history[1])

-----------------------------------------------------------------------------
(* The fields the front ends read from a found product                     *)

\* the fields read for every found product: by subscript in app.py (lines
\* 139-142), through .get in barcode.py (lines 165-168)
ReadFields == {"name", "brand", "category", "origin"}

\* C22 as stated: name, brand, category and origin are present in every
\* found ProductInfo, whichever source produced it, and handling a detected
\* code never ends in an error in either front end: run() does not crash and
\* no script run of the Streamlit session is ended by an exception.
C22_NoErrorState ==
    /\ pc # "crashed"
    /\ call.op = "app" => ~call.raised
    /\ (pc = "app" /\ scan_history # <<>>) =>
          LET info == scan_history[Len(scan_history)].info
          IN  info["found"] => ReadFields \subseteq DOMAIN info
    /\ (pc # "app" /\ lookups > 0) =>
          (product_info["found"] => ReadFields \subseteq DOMAIN product_info)

=============================================================================
